---- MODULE Spec2Model ----
(***************************************************************************)
(* Model of the Automate-UX runner:                                        *)
(*   - runner/domPatcher.js : upsertCssRule, sanitizeHtmlFragment,         *)
(*     applyOps (the hardened version, lines 1-247)                        *)
(*   - runner/index.js      : POST /jobs-create, GET /jobs-status,         *)
(*     workerLoop, runJob, callOpenAI                                      *)
(* Text is modelled as a sequence of one-character strings so that the     *)
(* regular expression, trim and split of upsertCssRule are computed        *)
(* character by character.                                                 *)
(***************************************************************************)
EXTENDS Integers, Sequences, FiniteSets, TLC

VARIABLES
    css,        \* the css text threaded through applyOps / upsertCssRule
    cssIn,      \* css text before the most recent upsertCssRule call
    cssSel,     \* selector argument of the most recent upsertCssRule call
    cssRules,   \* styleRules argument of the most recent upsertCssRule call
    cssCalls,   \* number of upsertCssRule calls made so far
    \* one applyOps request (domPatcher.js:102-247)
    dom,                \* the JSDOM document
    root,               \* request.root
    protectedSelectors, \* request.protectedSelectors
    maxOps,             \* request.maxOps
    safeRoots,          \* the scope roots, in document order
    protectedNodes,     \* the Set built at lines 114-119
    changed,            \* the changed counter
    applied,            \* the applied log
    seen,               \* the dedup key set
    phase,              \* "idle" | "loop" (in the op loop) | "returned" | "threw"
    opsDone,            \* number of ops of the list consumed so far
    log,                \* history: one record per changed++ (who was mutated)
    lastOp,             \* history: what the most recent loop iteration did
    \* the runner (runner/index.js)
    chain,      \* modelCandidates: the configured backends, in order
    store,      \* Redis keys jobs:data:<id>: the persisted job records
    queue,      \* Redis list jobs:queue
    nextId,     \* generateId(): the next fresh id
    pending,    \* POST /jobs-create handlers between redis.set and redis.rpush
    wpc,        \* per worker: where workerLoop / runJob / callOpenAI is suspended
    wjob,       \* per worker: its local `job` object
    wk,         \* per worker: index in chain of the backend being tried
    wresp,      \* per worker: the response whose body is being read
    called,     \* history, per job: the backends called, in call order
    firstOk,    \* history, per job: the backend whose call succeeded ("" if none)
    lastReply,  \* the GET /jobs-status response being sent, NoReply when none
    delivered,  \* per job id, how many times lpop has returned it to a worker
    started,    \* per job id, how many times runJob has been entered
    \* one request to the jobs-status proxy (netlify/functions/jobs-status.js)
    pxReq,      \* the request and the environment: method, id, configured
    pxPc,       \* where the handler is suspended, "returned" when it has answered
    pxI,        \* the loop index i of tryFetch
    pxRes,      \* status of the response tryFetch returned, 0 when none
    pxLastErr,  \* lastErr of tryFetch: the message of the last caught error
    pxAborted,  \* controller.signal.aborted
    pxTimer,    \* the abort timer `to` is armed
    pxReply,    \* what the handler returned
    pxTried     \* history: the outcome of every call made to the runner, in order

cssVars == <<css, cssIn, cssSel, cssRules, cssCalls>>
patchVars == <<dom, root, protectedSelectors, maxOps, safeRoots, protectedNodes,
               changed, applied, seen, phase, opsDone, log, lastOp>>
jobVars == <<chain, store, queue, nextId, pending, wpc, wjob, wk, wresp, called,
             firstOk, lastReply, delivered, started>>
proxyVars == <<pxReq, pxPc, pxI, pxRes, pxLastErr, pxAborted, pxTimer, pxReply, pxTried>>

----------------------------------------------------------------------------
(* Text helpers: String.prototype.trim / split / join                      *)

WS == {" ", "\n", "\t"}
LineTerm == {"\n"}

RECURSIVE TrimLeft(_)
TrimLeft(s) ==
    IF s = <<>> THEN <<>>
    ELSE IF Head(s) \in WS THEN TrimLeft(Tail(s)) ELSE s

RECURSIVE TrimRight(_)
TrimRight(s) ==
    IF s = <<>> THEN <<>>
    ELSE IF s[Len(s)] \in WS THEN TrimRight(SubSeq(s, 1, Len(s) - 1)) ELSE s

Trim(s) == TrimRight(TrimLeft(s))

\* index of the first occurrence of character d in s at or after from; 0 if none
RECURSIVE IndexOf(_, _, _)
IndexOf(s, d, from) ==
    IF from > Len(s) THEN 0
    ELSE IF s[from] = d THEN from ELSE IndexOf(s, d, from + 1)

\* s.split(d): the pieces between occurrences of d (always at least one piece)
RECURSIVE Split(_, _)
Split(s, d) ==
    LET i == IndexOf(s, d, 1)
    IN  IF i = 0 THEN <<s>>
        ELSE <<SubSeq(s, 1, i - 1)>> \o Split(SubSeq(s, i + 1, Len(s)), d)

\* parts.join(sep)
RECURSIVE Join(_, _)
Join(parts, sep) ==
    IF parts = <<>> THEN <<>>
    ELSE IF Len(parts) = 1 THEN parts[1]
    ELSE parts[1] \o sep \o Join(Tail(parts), sep)

----------------------------------------------------------------------------
(* upsertCssRule, domPatcher.js:73-100                                     *)

\* The selector reaches `new RegExp` unescaped: the escaping regex literal
\* /[.*+?^${}()|[\\]\\\\]/g only matches a metacharacter that is followed by
\* two backslashes and a ']', which no selector of the model contains.  So
\* each selector character is a pattern atom: '.' matches any character but
\* a line terminator, every other character of the model's alphabet is
\* literal.
PatAtom(p, c) == IF p = "." THEN c \notin LineTerm ELSE p = c

\* the pattern atoms of sel match text t at positions k .. k+Len(sel)-1
SelAt(t, sel, k) ==
    /\ k + Len(sel) - 1 <= Len(t)
    /\ \A x \in 1..Len(sel) : PatAtom(sel[x], t[k + x - 1])

\* end of the maximal whitespace run starting at j (first non-ws position)
RECURSIVE WsEnd(_, _)
WsEnd(t, j) ==
    IF j <= Len(t) /\ t[j] \in WS THEN WsEnd(t, j + 1) ELSE j

\* \s*\{([\s\S]*?)\} from position p: [open |-> index of '{', close |-> index
\* of the first '}' after it], or open = 0 when it does not match
BlockAt(t, p) ==
    LET o == WsEnd(t, p)
    IN  IF o <= Len(t) /\ t[o] = "{" /\ IndexOf(t, "}", o + 1) # 0
        THEN [open |-> o, close |-> IndexOf(t, "}", o + 1)]
        ELSE [open |-> 0, close |-> 0]

\* \s*SEL\s*\{...\} from position j, greedy \s* with backtracking:
\* the largest k in j..WsEnd(j) where the rest matches; 0 if none
RestAt(t, sel, j) ==
    LET ks == {k \in j..WsEnd(t, j) :
                  SelAt(t, sel, k) /\ BlockAt(t, k + Len(sel)).open # 0}
    IN  IF ks = {} THEN 0 ELSE CHOOSE k \in ks : \A k2 \in ks : k2 <= k

\* pattern.exec at start position i (1-based): alternative ^ (flag m) is
\* tried before alternative '}'
MatchAt(t, sel, i) ==
    LET lineStart == (i = 1) \/ (i - 1 <= Len(t) /\ t[i - 1] \in LineTerm)
        k1 == IF lineStart THEN RestAt(t, sel, i) ELSE 0
        k2 == IF i <= Len(t) /\ t[i] = "}" THEN RestAt(t, sel, i + 1) ELSE 0
        k  == IF k1 # 0 THEN k1 ELSE k2
        b  == BlockAt(t, k + Len(sel))
    IN  IF k = 0 THEN [found |-> FALSE]
        ELSE [found |-> TRUE,
              index |-> i,                          \* m.index + 1
              m1    |-> IF k1 # 0 THEN <<>> ELSE <<"}">>,
              selAt |-> k,
              m2    |-> SubSeq(t, b.open + 1, b.close - 1),
              last  |-> b.close]                    \* m.index + m[0].length

\* pattern.exec(cssText): the leftmost match
RECURSIVE ExecFrom(_, _, _)
ExecFrom(t, sel, i) ==
    IF i > Len(t) + 1 THEN [found |-> FALSE]
    ELSE IF MatchAt(t, sel, i).found THEN MatchAt(t, sel, i)
    ELSE ExecFrom(t, sel, i + 1)

PatternExec(t, sel) == ExecFrom(t, sel, 1)

\* the two loops over split(';'): `const [k, v] = prop.split(':')`,
\* `if (!k || v === undefined) continue; map[k.trim()] = v.trim()`.
\* The map is a sequence of <<key, value>> in insertion order.
MapSet(map, k, v) ==
    IF \E x \in 1..Len(map) : map[x][1] = k
    THEN [x \in 1..Len(map) |-> IF map[x][1] = k THEN <<k, v>> ELSE map[x]]
    ELSE Append(map, <<k, v>>)

RECURSIVE ParseInto(_, _)
ParseInto(map, props) ==
    IF props = <<>> THEN map
    ELSE LET kv == Split(Head(props), ":")
         IN  IF kv[1] = <<>> \/ Len(kv) < 2
             THEN ParseInto(map, Tail(props))
             ELSE ParseInto(MapSet(map, Trim(kv[1]), Trim(kv[2])), Tail(props))

MergeDecls(existing, rules) ==
    ParseInto(ParseInto(<<>>, Split(existing, ";")), Split(rules, ";"))

\* Object.entries(map).map(([k, v]) => `${k}: ${v}`).join('; ')
Serialize(map) ==
    Join([x \in 1..Len(map) |-> map[x][1] \o <<":", " ">> \o map[x][2]],
         <<";", " ">>)

upsertCssRule(cssText, selector, styleRules) ==
    LET sel   == Trim(selector)
        rules == Trim(styleRules)
        m     == PatternExec(cssText, sel)
    IN  IF sel = <<>> \/ rules = <<>> THEN cssText
        ELSE IF ~m.found
        THEN cssText \o <<"\n">> \o sel \o <<" ", "{", " ">> \o rules \o <<" ", "}">>
        ELSE LET merged == Serialize(MergeDecls(Trim(m.m2), rules))
                 replacement == m.m1 \o <<" ">> \o sel \o <<" ", "{", " ">>
                                \o merged \o <<" ", "}">>
             IN  SubSeq(cssText, 1, m.index - 1) \o replacement
                 \o SubSeq(cssText, m.last + 1, Len(cssText))

----------------------------------------------------------------------------
(* Document model: what jsdom gives applyOps.  A document is a record of   *)
(* sequences indexed by node number; node 1 is <html>.                     *)
(*   tag, id      : tagName (lower case) and id attribute                  *)
(*   cls          : className as its sequence of tokens                    *)
(*   attrs        : the other attributes, a set of <<name, value>> texts   *)
(*   text         : the element's own text                                 *)
(*   kids         : child elements in order;  parent : parentElement or 0  *)
(*   content      : for <template>, the top nodes of its template contents *)
(*                  (they are not children: querySelectorAll and           *)
(*                  parentElement do not cross this link)                  *)
(*   inserted     : the node was created by append_html / replace_html     *)

IndexSeq(n) == [i \in 1..n |-> i]

\* F applied to the value of v (v is evaluated once, then bound)
Eval(v, F(_)) == CHOOSE r \in { F(x) : x \in {v} } : TRUE

RECURSIVE SeqToSet(_)
SeqToSet(s) == IF s = <<>> THEN {} ELSE {Head(s)} \cup SeqToSet(Tail(s))

NodesOf(d) == 1..Len(d.tag)

\* preorder list of the elements ks and all their descendants
RECURSIVE DescList(_, _)
DescList(d, ks) ==
    IF ks = <<>> THEN <<>>
    ELSE <<Head(ks)>> \o DescList(d, d.kids[Head(ks)]) \o DescList(d, Tail(ks))

\* el and its parentElement chain: the nodes visited by contains()'s loop
RECURSIVE AncSelf(_, _)
AncSelf(d, el) ==
    IF el = 0 THEN {} ELSE {el} \cup AncSelf(d, d.parent[el])

\* contains(rootEl, candidate), domPatcher.js:25-34
contains(d, rootEl, candidate) ==
    IF rootEl = 0 \/ candidate = 0 THEN FALSE
    ELSE rootEl \in AncSelf(d, candidate)

(* Selectors.  A selector text of the model stands for the compound it     *)
(* parses to: [anc, tag, id, cls], empty meaning "any"; anc is the tag of  *)
(* a required ancestor (descendant combinator).  Ids, class tokens and     *)
(* attribute names and values are texts (character sequences).             *)
BadSelectors == { "p[", "footer role=\"contentinfo\"" }

TxtInner == <<"i", "n", "n", "e", "r">>
TxtOuter == <<"o", "u", "t", "e", "r">>
TxtNomatch == <<"n", "o", "m", "a", "t", "c", "h">>
TxtBox == <<"b", "o", "x">>
TxtHot == <<"h", "o", "t">>

Compound(anc, tag, id, cls) == [anc |-> anc, tag |-> tag, id |-> id, cls |-> cls]

SelDef(sel) ==
    CASE sel = "p"        -> Compound("", "p", <<>>, <<>>)
      [] sel = "a"        -> Compound("", "a", <<>>, <<>>)
      [] sel = "div"      -> Compound("", "div", <<>>, <<>>)
      [] sel = "nav"      -> Compound("", "nav", <<>>, <<>>)
      [] sel = "nav a"    -> Compound("nav", "a", <<>>, <<>>)
      [] sel = "header a" -> Compound("header", "a", <<>>, <<>>)
      [] sel = "header"   -> Compound("", "header", <<>>, <<>>)
      [] sel = "script"   -> Compound("", "script", <<>>, <<>>)
      [] sel = "link"     -> Compound("", "link", <<>>, <<>>)
      [] sel = "meta"     -> Compound("", "meta", <<>>, <<>>)
      [] sel = "style"    -> Compound("", "style", <<>>, <<>>)
      [] sel = "title"    -> Compound("", "title", <<>>, <<>>)
      [] sel = "#inner"   -> Compound("", "", TxtInner, <<>>)
      [] sel = "#nomatch" -> Compound("", "", TxtNomatch, <<>>)
      [] sel = ".box"     -> Compound("", "", <<>>, TxtBox)
      [] sel = ".hot"     -> Compound("", "", <<>>, TxtHot)

CompoundMatches(d, c, n) ==
    /\ c.tag = "" \/ d.tag[n] = c.tag
    /\ c.id = <<>>  \/ d.id[n] = c.id
    /\ c.cls = <<>> \/ c.cls \in SeqToSet(d.cls[n])

Matches(d, sel, n) ==
    LET c == SelDef(sel)
    IN  /\ CompoundMatches(d, c, n)
        /\ c.anc = "" \/ \E a \in AncSelf(d, d.parent[n]) : d.tag[a] = c.anc

\* scope.querySelectorAll(selector): the descendants of scope, in document
\* order, that match; [ok |-> FALSE] when the selector does not parse
\* (SyntaxError).  scope = 0 is the document.
querySelectorAll(d, scope, sel) ==
    IF sel \in BadSelectors THEN [ok |-> FALSE, els |-> <<>>]
    ELSE [ok  |-> TRUE,
          els |-> SelectSeq(DescList(d, IF scope = 0 THEN <<1>> ELSE d.kids[scope]),
                            LAMBDA n : Matches(d, sel, n))]

----------------------------------------------------------------------------
(* Character tests used by the sanitizer and by set_attr                   *)

Lower(c) ==
    CASE c = "J" -> "j" [] c = "O" -> "o" [] c = "N" -> "n" [] c = "S" -> "s"
      [] c = "C" -> "c" [] c = "H" -> "h" [] c = "R" -> "r" [] c = "E" -> "e"
      [] c = "F" -> "f" [] OTHER -> c

toLowerCase(s) == [i \in 1..Len(s) |-> Lower(s[i])]

startsWith(s, pre) == Len(s) >= Len(pre) /\ SubSeq(s, 1, Len(pre)) = pre

TxtOn == <<"o", "n">>
TxtHref == <<"h", "r", "e", "f">>
TxtSrc == <<"s", "r", "c">>
TxtJavascript == <<"j", "a", "v", "a", "s", "c", "r", "i", "p", "t", ":">>

\* /^\s*javascript:/i.test(value), domPatcher.js:64
JsUriLoose(value) == startsWith(toLowerCase(TrimLeft(value)), TxtJavascript)

\* /^javascript:/i.test(value), domPatcher.js:196
JsUriStrict(value) == startsWith(toLowerCase(value), TxtJavascript)

----------------------------------------------------------------------------
(* sanitizeHtmlFragment, domPatcher.js:46-70.  A fragment is the forest    *)
(* the template parser builds: a sequence of nodes [tag, id, cls, attrs,   *)
(* text, up, via]; up is the index of the node it hangs under (0 = top of  *)
(* the fragment) and via is "child" or, under a <template>, "content".     *)

DangerousTags == {"script", "iframe", "object", "embed", "meta"}

TxtRel == <<"r", "e", "l">>
TxtStylesheet == <<"s", "t", "y", "l", "e", "s", "h", "e", "e", "t">>

\* node i is found by frag.content.querySelectorAll: every link from the
\* top of the fragment down to it is a child link
RECURSIVE FragReach(_, _)
FragReach(frag, i) ==
    IF frag[i].up = 0 THEN TRUE
    ELSE frag[i].via = "child" /\ FragReach(frag, frag[i].up)

\* 'script, iframe, object, embed, link[rel="stylesheet"], meta'
FragDangerous(frag, i) ==
    /\ FragReach(frag, i)
    /\ \/ frag[i].tag \in DangerousTags
       \/ frag[i].tag = "link" /\ <<TxtRel, TxtStylesheet>> \in frag[i].attrs

\* el.remove() takes the whole subtree of a dangerous element with it
RECURSIVE FragRemoved(_, _)
FragRemoved(frag, i) ==
    \/ FragDangerous(frag, i)
    \/ frag[i].up # 0 /\ FragRemoved(frag, frag[i].up)

\* the attribute loop, lines 58-67
AttrStripped(a) ==
    LET name == toLowerCase(a[1])
    IN  \/ startsWith(name, TxtOn)
        \/ (name = TxtHref \/ name = TxtSrc) /\ JsUriLoose(a[2])

\* the HTML parser lower-cases attribute names
ParseAttrs(attrs) == { <<toLowerCase(a[1]), a[2]>> : a \in attrs }

\* the sanitized forest: removed nodes get tag "" (they are not serialized)
sanitizeHtmlFragment(frag) ==
    [i \in 1..Len(frag) |->
        IF FragRemoved(frag, i) THEN [frag[i] EXCEPT !.tag = ""]
        ELSE IF FragReach(frag, i)
        THEN [frag[i] EXCEPT !.attrs = { a \in ParseAttrs(@) : ~AttrStripped(a) }]
        ELSE [frag[i] EXCEPT !.attrs = ParseAttrs(@)]]

----------------------------------------------------------------------------
(* DOM mutations used by applyOps                                          *)

\* detach every child of el (they keep their own subtrees)
RemoveKids(d, el) ==
    [d EXCEPT !.parent = [n \in NodesOf(d) |-> IF d.parent[n] = el THEN 0 ELSE @[n]],
              !.kids[el] = <<>>]

\* el.textContent = text
SetTextContent(d, el, text) ==
    [RemoveKids(d, el) EXCEPT !.text[el] = text]

\* parse the (sanitized, serialized) fragment in the context of el and
\* append its nodes as last children of el: insertAdjacentHTML('beforeend')
InsertFragment(d, el, frag) ==
    LET keptSeq == SelectSeq(IndexSeq(Len(frag)), LAMBDA i : frag[i].tag # "")
        base    == Len(d.tag)
        newId(i) == base + Cardinality({j \in SeqToSet(keptSeq) : j <= i})
        under(i, via) == SelectSeq(keptSeq,
                            LAMBDA j : frag[j].up = i /\ (i = 0 \/ frag[j].via = via))
        ids(js) == [x \in 1..Len(js) |-> newId(js[x])]
        fresh(f(_)) == [x \in 1..Len(keptSeq) |-> f(keptSeq[x])]
        fTag(i)  == frag[i].tag
        fId(i)   == frag[i].id
        fCls(i)  == frag[i].cls
        fAttr(i) == frag[i].attrs
        fText(i) == frag[i].text
        fKids(i) == ids(under(i, "child"))
        fCont(i) == ids(under(i, "content"))
        fPar(i)  == IF frag[i].up = 0 THEN el
                    ELSE IF frag[i].via = "child" THEN newId(frag[i].up) ELSE 0
        fIns(i)  == TRUE
    IN  [tag      |-> d.tag \o fresh(fTag),
         id       |-> d.id \o fresh(fId),
         cls      |-> d.cls \o fresh(fCls),
         attrs    |-> d.attrs \o fresh(fAttr),
         text     |-> d.text \o fresh(fText),
         kids     |-> [d.kids EXCEPT ![el] = @ \o ids(under(0, "child"))] \o fresh(fKids),
         content  |-> d.content \o fresh(fCont),
         parent   |-> d.parent \o fresh(fPar),
         inserted |-> d.inserted \o fresh(fIns)]

\* el.innerHTML = safe
SetInnerHTML(d, el, frag) ==
    InsertFragment([RemoveKids(d, el) EXCEPT !.text[el] = ""], el, frag)

\* el.setAttribute(name, value) in an HTML document (name is lower-cased);
\* id and class are kept in their own fields
SetAttribute(d, el, attr, value) ==
    LET name == toLowerCase(attr)
    IN  IF name = <<"i", "d">> THEN [d EXCEPT !.id[el] = value]
        ELSE IF name = <<"c", "l", "a", "s", "s">> THEN [d EXCEPT !.cls[el] = <<value>>]
        ELSE [d EXCEPT !.attrs[el] = { a \in @ : a[1] # name } \cup { <<name, value>> }]

\* el.classList.add(...list) / remove(...list), list a sequence of tokens
RECURSIVE ClassAdd(_, _)
ClassAdd(cls, list) ==
    IF list = <<>> THEN cls
    ELSE ClassAdd(IF Head(list) \in SeqToSet(cls) THEN cls ELSE Append(cls, Head(list)),
                  Tail(list))

ClassRemove(cls, list) == SelectSeq(cls, LAMBDA c : c \notin SeqToSet(list))

----------------------------------------------------------------------------
(* applyOps, domPatcher.js:102-247                                         *)

Absent == "<absent>"

DEFAULT_PROTECTED ==
    <<"header", "footer role=\"contentinfo\"", "script", "link", "meta", "style">>

\* `root ? Array.from(doc.querySelectorAll(root)) : []`, then the <body>
\* fallback of line 108.  ok = FALSE: querySelectorAll threw (no try here).
BodyOf(d) == CHOOSE n \in NodesOf(d) : d.tag[n] = "body"

ResolveRoots(d, rootSel) ==
    LET q == IF rootSel = Absent \/ rootSel = ""
             THEN [ok |-> TRUE, els |-> <<>>]
             ELSE querySelectorAll(d, 0, rootSel)
    IN  [ok |-> q.ok,
         roots |-> IF q.els # <<>> THEN q.els ELSE <<BodyOf(d)>>]

isRootEl(roots, el) == el \in SeqToSet(roots)

\* lines 114-119: a selector that throws is skipped
ProtectedNodesOf(d, sels) ==
    UNION { SeqToSet(querySelectorAll(d, 0, sels[i]).els) : i \in 1..Len(sels) }

\* (mutant: tests the protected node itself and forgets the ancestor walk)
inProtected_NoWalk(d, el) == el \in protectedNodes

\* lines 121-127
inProtected(d, el) ==
    IF el = 0 THEN FALSE
    ELSE \E p \in protectedNodes : contains(d, p, el)

\* (mutant: the budget test lets one more change through)
budgetLeft_OffByOne(n) == maxOps <= 0 \/ maxOps - n >= 0

\* budgetLeft() is truthy
budgetLeft(n) == maxOps <= 0 \/ maxOps - n > 0

\* `${selector}@@${el.tagName}#${el.id}.${el.className}`; the model's ids and
\* class tokens contain none of '@', '#', '.', so the tuple is the same key
DedupKey(d, selector, el) == <<selector, d.tag[el], d.id[el], d.cls[el]>>

\* lines 142-154: the elements found under each root, in root order, with
\* the key test; returns the candidates and the grown seen set
RECURSIVE Dedup(_, _, _, _, _)
Dedup(d, selector, els, cands, seenNow) ==
    IF els = <<>> THEN [cands |-> cands, seen |-> seenNow]
    ELSE LET key == DedupKey(d, selector, Head(els))
         IN  IF key \in seenNow
             THEN Dedup(d, selector, Tail(els), cands, seenNow)
             ELSE Dedup(d, selector, Tail(els), Append(cands, Head(els)),
                        seenNow \cup {key})

\* (mutant: candidates are looked up in the whole document)
FoundUnder_WholeDoc(d, roots, selector) == querySelectorAll(d, 0, selector).els

RECURSIVE FoundUnder(_, _, _)
FoundUnder(d, roots, selector) ==
    IF roots = <<>> THEN <<>>
    ELSE querySelectorAll(d, Head(roots), selector).els
         \o FoundUnder(d, Tail(roots), selector)

\* String(op.value).split(/\s+/).filter(Boolean)
RECURSIVE SplitWs(_)
SplitWs(s) ==
    LET t == TrimLeft(s)
        e == CHOOSE i \in 1..(Len(t) + 1) :
                 /\ i > Len(t) \/ t[i] \in WS
                 /\ \A j \in 1..(i - 1) : t[j] \notin WS
    IN  IF t = <<>> THEN <<>>
        ELSE <<SubSeq(t, 1, e - 1)>> \o SplitWs(SubSeq(t, e, Len(t)))

\* one `changed++; applied.push(...)`; the history record keeps who it was
Count(st, el, op, entry, d0) ==
    [st EXCEPT !.changed = @ + 1,
               !.applied = Append(@, entry),
               !.mutated = Append(@, el),
               !.log = Append(@, [el    |-> el,
                                  kind  |-> op.op,
                                  anc   |-> AncSelf(st.dom, el),
                                  scope |-> { r \in SeqToSet(safeRoots) :
                                                r # el /\ contains(d0, r, el) }])]

Entry(op, extra) == [op |-> op.op, selector |-> op.selector, extra |-> extra]

\* the switch of lines 161-242 for one candidate
ApplyCand(st, el, op, d0) ==
    CASE op.op = "replace_text" ->
            IF "text" \in op.strings
            THEN Eval(SetTextContent(st.dom, el, op.text),
                      LAMBDA nd : Count([st EXCEPT !.dom = nd], el, op, Entry(op, <<>>), d0))
            ELSE st
      [] op.op = "append_html" ->
            IF "html" \in op.strings
            THEN Eval(sanitizeHtmlFragment(op.html), LAMBDA safe :
                 Eval(InsertFragment(st.dom, el, safe), LAMBDA nd :
                      Count([st EXCEPT !.dom = nd], el, op, Entry(op, <<>>), d0)))
            ELSE st
      [] op.op = "replace_html" ->
            IF isRootEl(safeRoots, el) THEN st
            ELSE IF "html" \in op.strings
            THEN Eval(sanitizeHtmlFragment(op.html), LAMBDA safe :
                 Eval(SetInnerHTML(st.dom, el, safe), LAMBDA nd :
                      Count([st EXCEPT !.dom = nd], el, op, Entry(op, <<>>), d0)))
            ELSE st
      [] op.op = "set_attr" ->
            IF op.attr # <<>>
            THEN LET name == toLowerCase(op.attr)
                 IN  IF ~startsWith(name, TxtOn)
                        /\ ~(JsUriStrict(op.value) /\ (name = TxtHref \/ name = TxtSrc))
                     THEN Count([st EXCEPT !.dom = SetAttribute(@, el, op.attr, op.value)],
                                el, op, Entry(op, op.attr), d0)
                     ELSE st
            ELSE st
      [] op.op = "add_class" ->
            IF op.value # <<>> /\ SplitWs(op.value) # <<>>
            THEN Count([st EXCEPT !.dom.cls[el] = ClassAdd(@, SplitWs(op.value))],
                       el, op, Entry(op, Join(SplitWs(op.value), <<" ">>)), d0)
            ELSE st
      [] op.op = "remove_class" ->
            IF op.value # <<>> /\ SplitWs(op.value) # <<>>
            THEN Count([st EXCEPT !.dom.cls[el] = ClassRemove(@, SplitWs(op.value))],
                       el, op, Entry(op, Join(SplitWs(op.value), <<" ">>)), d0)
            ELSE st
      [] op.op = "upsert_style" ->
            IF op.cssSelector # <<>> /\ op.styleRules # <<>>
            THEN Eval(upsertCssRule(st.css, op.cssSelector, op.styleRules), LAMBDA nc :
                      Count([st EXCEPT !.css = nc,
                                       !.cssIn = st.css,
                                       !.cssSel = op.cssSelector,
                                       !.cssRules = op.styleRules,
                                       !.cssCalls = @ + 1],
                            el, op,
                            [op |-> op.op, selector |-> op.cssSelector, extra |-> <<>>],
                            d0))
            ELSE st
      [] OTHER -> st

\* the candidate loop of lines 157-243
RECURSIVE ApplyCands(_, _, _, _)
ApplyCands(st, cands, op, d0) ==
    IF cands = <<>> THEN st
    ELSE IF ~budgetLeft(st.changed) THEN [st EXCEPT !.budgetBreak = TRUE]
    ELSE IF inProtected(st.dom, Head(cands))
    THEN Eval([st EXCEPT !.skipped = @ \cup {Head(cands)}],
              LAMBDA nst : ApplyCands(nst, Tail(cands), op, d0))
    ELSE Eval(ApplyCand(st, Head(cands), op, d0),
              LAMBDA nst : ApplyCands(nst, Tail(cands), op, d0))

\* one iteration of the op loop (lines 138-243) on the current state
OpStep(op) ==
    LET st0 == [dom |-> dom, css |-> css, cssIn |-> cssIn, cssSel |-> cssSel,
                cssRules |-> cssRules, cssCalls |-> cssCalls,
                changed |-> changed, applied |-> applied, log |-> log,
                mutated |-> <<>>, skipped |-> {}, budgetBreak |-> FALSE]
        skip  == op.selector = "" \/ op.op = ""
    IN  Eval(IF skip THEN <<>> ELSE FoundUnder(dom, safeRoots, op.selector), LAMBDA found :
        Eval(Dedup(dom, op.selector, found, <<>>, seen), LAMBDA dd :
        Eval(ApplyCands(st0, dd.cands, op, dom), LAMBDA st1 :
             [st |-> st1, seen |-> dd.seen, found |-> found, cands |-> dd.cands])))

----------------------------------------------------------------------------
(* The runner: runner/index.js.  Every `await` is a step boundary; Redis   *)
(* commands are atomic and are taken to succeed.                           *)

NumWorkers == 2     \* worker processes sharing the store and the queue
MaxJobs == 2        \* most jobs created

Workers == 1..NumWorkers
JobIds == 1..MaxJobs

ChainInputs == { <<"A", "B", "C">>, <<"A">>, <<>> }

\* a missing key; result and error are <<>> for null, <<v>> for a value v
NoJob == [id |-> 0, status |-> "none", logs |-> <<>>, result |-> <<>>, error |-> <<>>]

\* (mutant: the id is queued while its record is still missing)
NewJob_NotWritten(id) == [NoJob EXCEPT !.id = id]

\* the record written by POST /jobs-create, lines 348-360
NewJob(id) ==
    [id |-> id, status |-> "queued", logs |-> <<>>, result |-> <<>>, error |-> <<>>]

NoResp == [ok |-> FALSE, stalls |-> FALSE]
NoReply == [id |-> 0, code |-> 0, status |-> "", result |-> <<>>, error |-> <<>>,
            logs |-> <<>>]

\* (mutant: the head is read but left in the list)
lpop_Peek(q) == IF q = <<>> THEN [id |-> 0, rest |-> q] ELSE [id |-> Head(q), rest |-> q]

\* (mutant: the id that is returned goes back to the tail of the list)
lpop_Requeue(q) ==
    IF q = <<>> THEN [id |-> 0, rest |-> q]
    ELSE [id |-> Head(q), rest |-> Append(Tail(q), Head(q))]

\* redis.lpop('jobs:queue'): remove and return the head in one step
lpop(q) == IF q = <<>> THEN [id |-> 0, rest |-> q] ELSE [id |-> Head(q), rest |-> Tail(q)]

\* what a backend may send as the body: obj is the parsed JSON
\*   json     : JSON.parse(content) succeeds
\*   hasFiles : obj is an object with a truthy `files`
\*   strings  : the keys of obj.files whose value is a string
\*   external : index.html carries an external <script src> or stylesheet link
RequiredFiles == {"index.html", "styles/style.css", "scripts/app.js"}

Body(json, hasFiles, strings, external) ==
    [json |-> json, hasFiles |-> hasFiles, strings |-> strings, external |-> external]

BodyInputs ==
    { Body(TRUE, TRUE, RequiredFiles, TRUE),
      Body(TRUE, TRUE, {"index.html", "styles/style.css"}, FALSE),
      Body(FALSE, FALSE, {}, FALSE) }

\* (mutant: the three required keys are not tested)
validateAiOutput_NoKeyTest(model, obj) ==
    IF ~obj.hasFiles THEN [ok |-> FALSE, error |-> "No files property returned"]
    ELSE [ok |-> TRUE,
          files |-> [from |-> model, strings |-> obj.strings, external |-> FALSE]]

\* validateAiOutput, lines 197-212: the files, with the external script and
\* stylesheet tags cut out of index.html, or the message of the Error
validateAiOutput(model, obj) ==
    IF ~obj.hasFiles THEN [ok |-> FALSE, error |-> "No files property returned"]
    ELSE IF ~(RequiredFiles \subseteq obj.strings)
    THEN [ok |-> FALSE, error |-> "File missing or not a string"]
    ELSE [ok |-> TRUE,
          files |-> [from |-> model, strings |-> obj.strings, external |-> FALSE]]

\* callOpenAI after `await resp.json()`, lines 242-261
ReadBody(model, respOk, obj) ==
    IF ~respOk THEN [ok |-> FALSE, error |-> "OpenAI HTTP error"]
    ELSE IF ~obj.json THEN [ok |-> FALSE, error |-> "AI returned invalid JSON"]
    ELSE validateAiOutput(model, obj)

\* (mutant: a failed call is not recorded in job.logs)
AfterCall_NoLog(job, model, res) ==
    IF res.ok
    THEN [job  |-> [job EXCEPT !.status = "done", !.result = <<res.files>>,
                               !.error = <<>>],
          next |-> "persistDone"]
    ELSE [job |-> job, next |-> "persistLog"]

\* the body of the model loop after the call returned, lines 286-296
AfterCall(job, model, res) ==
    IF res.ok
    THEN [job  |-> [job EXCEPT !.status = "done", !.result = <<res.files>>,
                               !.error = <<>>],
          next |-> "persistDone"]
    ELSE [job  |-> [job EXCEPT !.logs = Append(@, [model |-> model, error |-> res.error])],
          next |-> "persistLog"]

\* (mutant: the error is the first failure, not the last)
AllFailed_FirstLog(job) ==
    [job EXCEPT !.status = "error",
                !.error = IF job.logs # <<>> THEN <<job.logs[1]>>
                          ELSE <<[model |-> "", error |-> "AI failed"]>>]

\* lines 300-301, after the loop
AllFailed(job) ==
    [job EXCEPT !.status = "error",
                !.error = IF job.logs # <<>> THEN <<job.logs[Len(job.logs)]>>
                          ELSE <<[model |-> "", error |-> "AI failed"]>>]

\* how `await fetch` may settle: respOk is resp.ok, stalls says that the
\* body never completes
Settled(how, respOk, stalls) == [how |-> how, respOk |-> respOk, stalls |-> stalls]

FetchInputs ==
    { Settled("response", TRUE, FALSE),
      Settled("response", FALSE, FALSE),
      Settled("response", TRUE, TRUE),
      Settled("reject", FALSE, FALSE),
      Settled("timeout", FALSE, FALSE) }

JobsIdle ==
    /\ chain = <<>>
    /\ store = <<>>
    /\ queue = <<>>
    /\ nextId = 0
    /\ pending = {}
    /\ wpc = <<>>
    /\ wjob = <<>>
    /\ wk = <<>>
    /\ wresp = <<>>
    /\ called = <<>>
    /\ firstOk = <<>>
    /\ lastReply = NoReply
    /\ delivered = <<>>
    /\ started = <<>>

\* POST /jobs-create up to `await redis.set`, lines 343-361
CreateSet ==
    /\ nextId <= MaxJobs
    /\ store' = [store EXCEPT ![nextId] = NewJob(nextId)]
    /\ pending' = pending \cup {nextId}
    /\ nextId' = nextId + 1
    /\ UNCHANGED <<chain, delivered, started, queue, wpc, wjob, wk, wresp, called,
                   firstOk>>
    /\ lastReply' = NoReply

\* `await redis.rpush('jobs:queue', id)` and the 202 response, lines 362-363
CreatePush(id) ==
    /\ id \in pending
    /\ queue' = Append(queue, id)
    /\ pending' = pending \ {id}
    /\ UNCHANGED <<chain, delivered, started, store, nextId, wpc, wjob, wk, wresp,
                   called, firstOk>>
    /\ lastReply' = NoReply

\* GET /jobs-status, lines 368-378 (at most 20 log lines are returned; a job
\* of the model never has more than Len(chain) <= 3)
Status(id) ==
    /\ lastReply' =
         IF store[id].status = "none"
         THEN [NoReply EXCEPT !.id = id, !.code = 404]
         ELSE [id |-> id, code |-> 200, status |-> store[id].status,
               result |-> store[id].result, error |-> store[id].error,
               logs |-> store[id].logs]
    /\ UNCHANGED <<chain, delivered, started, store, queue, nextId, pending, wpc, wjob,
                   wk, wresp, called,
                   firstOk>>

\* workerLoop: `await redis.lpop`, lines 315-320.  On an empty queue the
\* worker sleeps and comes back here.
WorkerPop(w) ==
    /\ wpc[w] = "pop"
    /\ queue # <<>>
    /\ queue' = lpop(queue).rest
    /\ wjob' = [wjob EXCEPT ![w] = [NoJob EXCEPT !.id = lpop(queue).id]]
    /\ wpc' = [wpc EXCEPT ![w] = "get"]
    /\ delivered' = [delivered EXCEPT ![lpop(queue).id] = @ + 1]
    /\ UNCHANGED <<chain, started, store, nextId, pending, wk, wresp, called, firstOk>>
    /\ lastReply' = NoReply

\* `await redis.get`, lines 321-324, then runJob up to its first
\* `await redis.set`: job.status = 'running'
WorkerGet(w) ==
    /\ wpc[w] = "get"
    /\ IF store[wjob[w].id].status = "none"
       THEN /\ wpc' = [wpc EXCEPT ![w] = "pop"]
            /\ wjob' = [wjob EXCEPT ![w] = NoJob]
            /\ UNCHANGED started
       ELSE /\ wpc' = [wpc EXCEPT ![w] = "setRunning"]
            /\ wjob' = [wjob EXCEPT ![w] = [store[wjob[w].id] EXCEPT !.status = "running"]]
            /\ started' = [started EXCEPT ![wjob[w].id] = @ + 1]
    /\ UNCHANGED <<chain, delivered, store, queue, nextId, pending, wk, wresp, called,
                   firstOk>>
    /\ lastReply' = NoReply

\* the redis.set of line 274 completes; the model loop starts with the
\* first backend and callOpenAI issues its fetch (or the chain is empty)
WorkerSetRunning(w) ==
    /\ wpc[w] = "setRunning"
    /\ store' = [store EXCEPT ![wjob[w].id] = wjob[w]]
    /\ IF chain = <<>>
       THEN /\ wjob' = [wjob EXCEPT ![w] = AllFailed(@)]
            /\ wpc' = [wpc EXCEPT ![w] = "persistFinal"]
            /\ UNCHANGED <<wk, called>>
       ELSE /\ wk' = [wk EXCEPT ![w] = 1]
            /\ called' = [called EXCEPT ![wjob[w].id] = Append(@, chain[1])]
            /\ wpc' = [wpc EXCEPT ![w] = "fetch"]
            /\ UNCHANGED wjob
    /\ UNCHANGED <<chain, delivered, started, queue, nextId, pending, wresp, firstOk>>
    /\ lastReply' = NoReply

\* `await fetch(...)` settles, lines 233-240 and 262-265.
\*   "response": headers arrived (status 2xx or not), clearTimeout; the body
\*               is read next, and it may arrive or stall
\*   "reject"  : network error
\*   "timeout" : the AbortController fired before any response
WorkerFetch(w, how, respOk, stalls) ==
    /\ wpc[w] = "fetch"
    /\ IF how = "response"
       THEN /\ wresp' = [wresp EXCEPT ![w] = [ok |-> respOk, stalls |-> stalls]]
            /\ wpc' = [wpc EXCEPT ![w] = "body"]
            /\ UNCHANGED wjob
       ELSE LET res == [ok |-> FALSE,
                        error |-> IF how = "timeout" THEN "timeout" ELSE "fetch failed"]
                ac  == AfterCall(wjob[w], chain[wk[w]], res)
            IN  /\ wjob' = [wjob EXCEPT ![w] = ac.job]
                /\ wpc' = [wpc EXCEPT ![w] = ac.next]
                /\ UNCHANGED wresp
    /\ UNCHANGED <<chain, delivered, started, store, queue, nextId, pending, wk,
                   called, firstOk>>
    /\ lastReply' = NoReply

\* `await resp.json()` settles (lines 241-261) and runJob takes the result
\* (lines 286-296).  The timer was cleared at line 240: nothing ends the
\* wait for a body that stalls.
WorkerBody(w, obj) ==
    /\ wpc[w] = "body"
    /\ ~wresp[w].stalls
    /\ LET res == ReadBody(chain[wk[w]], wresp[w].ok, obj)
           ac  == AfterCall(wjob[w], chain[wk[w]], res)
       IN  /\ wjob' = [wjob EXCEPT ![w] = ac.job]
           /\ wpc' = [wpc EXCEPT ![w] = ac.next]
           /\ firstOk' = IF res.ok THEN [firstOk EXCEPT ![wjob[w].id] = chain[wk[w]]]
                         ELSE firstOk
    /\ wresp' = [wresp EXCEPT ![w] = NoResp]
    /\ UNCHANGED <<chain, delivered, started, store, queue, nextId, pending, wk, called>>
    /\ lastReply' = NoReply

\* the redis.set of line 297 completes; the loop goes to the next backend,
\* or ends (lines 300-302)
WorkerPersistLog(w) ==
    /\ wpc[w] = "persistLog"
    /\ store' = [store EXCEPT ![wjob[w].id] = wjob[w]]
    /\ IF wk[w] < Len(chain)
       THEN /\ wk' = [wk EXCEPT ![w] = @ + 1]
            /\ called' = [called EXCEPT ![wjob[w].id] = Append(@, chain[wk[w] + 1])]
            /\ wpc' = [wpc EXCEPT ![w] = "fetch"]
            /\ UNCHANGED wjob
       ELSE /\ wjob' = [wjob EXCEPT ![w] = AllFailed(@)]
            /\ wpc' = [wpc EXCEPT ![w] = "persistFinal"]
            /\ UNCHANGED <<wk, called>>
    /\ UNCHANGED <<chain, delivered, started, queue, nextId, pending, wresp, firstOk>>
    /\ lastReply' = NoReply

\* the redis.set of line 291 (done) or 303 (error) completes; runJob
\* returns and the worker loops
WorkerPersistEnd(w) ==
    /\ wpc[w] \in {"persistDone", "persistFinal"}
    /\ store' = [store EXCEPT ![wjob[w].id] = wjob[w]]
    /\ wpc' = [wpc EXCEPT ![w] = "pop"]
    /\ wjob' = [wjob EXCEPT ![w] = NoJob]
    /\ wk' = [wk EXCEPT ![w] = 0]
    /\ UNCHANGED <<chain, delivered, started, queue, nextId, pending, wresp, called,
                   firstOk>>
    /\ lastReply' = NoReply

----------------------------------------------------------------------------
(* The jobs-status proxy: netlify/functions/jobs-status.js.  One request;  *)
(* every `await` is a step boundary.                                       *)

attempts == 3       \* tryFetch(url, init, attempts=3)

\* event.httpMethod, queryStringParameters.id, and whether RUNNER_URL and
\* RUNNER_SHARED_SECRET are both set
ProxyRequests ==
    [method : {"GET", "OPTIONS", "POST"},
     id : {<<>>, <<" ">>, <<"j", "1">>},
     configured : BOOLEAN]

NoRequest == [method |-> "", id |-> <<>>, configured |-> FALSE]

\* { statusCode, body }: error is body.error of an answer the proxy makes
\* itself, detail its body.detail, data how the runner's body was passed on
ProxyReply(statusCode, error, detail, data) ==
    [statusCode |-> statusCode, error |-> error, detail |-> detail, data |-> data]

NoProxyReply == ProxyReply(0, "", "", "")

\* how `await fetch(url, init)` settles when the signal is not yet aborted:
\* a response of the runner (or of what stands in front of it), a network
\* error, or the abort timer firing while the call is in flight
Outcome(kind, status) == [kind |-> kind, status |-> status]

RunnerStatuses == {200, 401, 404, 500, 503}

FetchOutcomes ==
    { Outcome("response", s) : s \in RunnerStatuses }
        \cup { Outcome("network", 0), Outcome("abort", 0) }

\* how `await response.text()` and JSON.parse go: the text parses, the text
\* does not parse, or the read rejects (the connection breaks in the body)
BodyOutcomes == {"json", "raw", "error"}

ProxyIdle ==
    /\ pxReq = NoRequest
    /\ pxPc = "idle"
    /\ pxI = 0
    /\ pxRes = 0
    /\ pxLastErr = ""
    /\ pxAborted = FALSE
    /\ pxTimer = FALSE
    /\ pxReply = NoProxyReply
    /\ pxTried = <<>>

\* the handler up to its first await, lines 24-53: the early answers, or the
\* abort timer armed and the loop of tryFetch entered with i = 0
ProxyHandle ==
    /\ pxPc = "start"
    /\ IF pxReq.method = "OPTIONS"
       THEN /\ pxReply' = ProxyReply(204, "", "", "")
            /\ pxPc' = "returned"
            /\ UNCHANGED pxTimer
       ELSE IF pxReq.method # "GET"
       THEN /\ pxReply' = ProxyReply(405, "Method Not Allowed", "", "")
            /\ pxPc' = "returned"
            /\ UNCHANGED pxTimer
       ELSE IF Trim(pxReq.id) = <<>>
       THEN /\ pxReply' = ProxyReply(400, "Missing id", "", "")
            /\ pxPc' = "returned"
            /\ UNCHANGED pxTimer
       ELSE IF ~pxReq.configured
       THEN /\ pxReply' = ProxyReply(500, "Runner not configured", "", "")
            /\ pxPc' = "returned"
            /\ UNCHANGED pxTimer
       ELSE /\ pxTimer' = TRUE
            /\ pxPc' = "fetch"
            /\ UNCHANGED pxReply
    /\ UNCHANGED <<pxReq, pxI, pxRes, pxLastErr, pxAborted, pxTried>>

\* `res = await fetch(url, init)` settles, lines 53-57.  A response below 500
\* is returned to the handler, which clears the timer (line 74) and starts
\* reading the body (line 76); anything else is caught and the backoff sleep
\* of line 58 starts.
ProxyFetch(o) ==
    /\ pxPc = "fetch"
    /\ ~pxAborted
    /\ pxTried' = Append(pxTried, o)
    /\ IF o.kind = "response" /\ ~(o.status >= 500)
       THEN /\ pxRes' = o.status
            /\ pxTimer' = FALSE
            /\ pxPc' = "body"
            /\ UNCHANGED <<pxLastErr, pxAborted>>
       ELSE /\ pxLastErr' = IF o.kind = "response" THEN "upstream"
                            ELSE IF o.kind = "network" THEN "fetch failed"
                            ELSE "This operation was aborted"
            /\ pxAborted' = (o.kind = "abort")
            /\ pxTimer' = IF o.kind = "abort" THEN FALSE ELSE pxTimer
            /\ pxPc' = "sleep"
            /\ UNCHANGED pxRes
    /\ UNCHANGED <<pxReq, pxI, pxReply>>

\* fetch with a signal that is already aborted rejects without a request
ProxyFetchAborted ==
    /\ pxPc = "fetch"
    /\ pxAborted
    /\ pxLastErr' = "This operation was aborted"
    /\ pxPc' = "sleep"
    /\ UNCHANGED <<pxReq, pxI, pxRes, pxAborted, pxTimer, pxReply, pxTried>>

\* the timer of line 46 fires during a backoff sleep
ProxyTimeout ==
    /\ pxPc = "sleep"
    /\ pxTimer
    /\ pxAborted' = TRUE
    /\ pxTimer' = FALSE
    /\ UNCHANGED <<pxReq, pxPc, pxI, pxRes, pxLastErr, pxReply, pxTried>>

\* the sleep of line 58 ends and i++; when the loop is over tryFetch throws
\* lastErr (line 61) and the handler answers 502 (lines 70-72)
ProxyBackoff ==
    /\ pxPc = "sleep"
    /\ pxI' = pxI + 1
    /\ IF pxI + 1 < attempts
       THEN /\ pxPc' = "fetch"
            /\ UNCHANGED <<pxTimer, pxReply>>
       ELSE /\ pxTimer' = FALSE
            /\ pxReply' = ProxyReply(502, "fetch failed", pxLastErr, "")
            /\ pxPc' = "returned"
    /\ UNCHANGED <<pxReq, pxRes, pxLastErr, pxAborted, pxTried>>

\* `await response.text()` settles, lines 76-83: the runner's status is
\* passed on with the parsed or the raw body; a rejected read is caught by the
\* outer catch and answered 500 with the error's message
ProxyBody(b) ==
    /\ pxPc = "body"
    /\ pxReply' = IF b = "error"
                  THEN ProxyReply(500, "terminated", "", "")
                  ELSE ProxyReply(pxRes, "", "", b)
    /\ pxPc' = "returned"
    /\ UNCHANGED <<pxReq, pxI, pxRes, pxLastErr, pxAborted, pxTimer, pxTried>>

----------------------------------------------------------------------------
(* The request inputs of the model                                         *)

MaxOpsLen == 2      \* longest op list
MaxNodes == 18      \* most nodes the document may grow to

\* <html><head><style/></head><body><header><a/></header><nav><a/></nav>
\*   <div id=outer class=box><div id=inner class=box><p>Old</p><p>Old</p>
\*   </div></div></body></html>
InitNodes ==
    << [tag |-> "html",   id |-> <<>>,     cls |-> <<>>,       parent |-> 0,  text |-> ""],
       [tag |-> "head",   id |-> <<>>,     cls |-> <<>>,       parent |-> 1,  text |-> ""],
       [tag |-> "style",  id |-> <<>>,     cls |-> <<>>,       parent |-> 2,  text |-> "css"],
       [tag |-> "body",   id |-> <<>>,     cls |-> <<>>,       parent |-> 1,  text |-> ""],
       [tag |-> "header", id |-> <<>>,     cls |-> <<>>,       parent |-> 4,  text |-> ""],
       [tag |-> "a",      id |-> <<>>,     cls |-> <<>>,       parent |-> 5,  text |-> "Home"],
       [tag |-> "nav",    id |-> <<>>,     cls |-> <<>>,       parent |-> 4,  text |-> ""],
       [tag |-> "a",      id |-> <<>>,     cls |-> <<>>,       parent |-> 7,  text |-> "Link"],
       [tag |-> "div",    id |-> TxtOuter, cls |-> <<TxtBox>>, parent |-> 4,  text |-> ""],
       [tag |-> "div",    id |-> TxtInner, cls |-> <<TxtBox>>, parent |-> 9,  text |-> ""],
       [tag |-> "p",      id |-> <<>>,     cls |-> <<>>,       parent |-> 10, text |-> "Old"],
       [tag |-> "p",      id |-> <<>>,     cls |-> <<>>,       parent |-> 10, text |-> "Old"] >>

InitDom ==
    LET N == Len(InitNodes)
    IN  [tag      |-> [n \in 1..N |-> InitNodes[n].tag],
         id       |-> [n \in 1..N |-> InitNodes[n].id],
         cls      |-> [n \in 1..N |-> InitNodes[n].cls],
         attrs    |-> [n \in 1..N |-> {}],
         text     |-> [n \in 1..N |-> InitNodes[n].text],
         kids     |-> [n \in 1..N |->
                          SelectSeq(IndexSeq(N), LAMBDA k : InitNodes[k].parent = n)],
         content  |-> [n \in 1..N |-> <<>>],
         parent   |-> [n \in 1..N |-> InitNodes[n].parent],
         inserted |-> [n \in 1..N |-> FALSE]]

FNode(tag, attrs, up, via) ==
    [tag |-> tag, id |-> <<>>, cls |-> <<>>, attrs |-> attrs, text |-> "",
     up |-> up, via |-> via]

TxtOnClick == <<"o", "n", "C", "l", "i", "c", "k">>
TxtOnError == <<"o", "n", "e", "r", "r", "o", "r">>
TxtTitle == <<"t", "i", "t", "l", "e">>
TxtJsUrl == <<"j", "a", "v", "a", "s", "c", "r", "i", "p", "t", ":", "x">>
TxtJsUrlWs == <<" ", "J", "a", "v", "a", "S", "c", "r", "i", "p", "t", ":", "x">>

\* <span></span>
FragPlain == << FNode("span", {}, 0, "child") >>

\* <script></script><p onClick="x"><a href=" JavaScript:x" title="t"></a><iframe></iframe></p>
FragUnsafe ==
    << FNode("script", {}, 0, "child"),
       FNode("p", {<<TxtOnClick, <<"x">>>>}, 0, "child"),
       FNode("a", {<<TxtHref, TxtJsUrlWs>>, <<TxtTitle, <<"t">>>>}, 2, "child"),
       FNode("iframe", {}, 2, "child") >>

\* <template><script></script><img onerror="x"></template>
FragTemplate ==
    << FNode("template", {}, 0, "child"),
       FNode("script", {}, 1, "content"),
       FNode("img", {<<TxtOnError, <<"x">>>>}, 1, "content") >>

\* <style></style><meta><b></b>
FragStyle ==
    << FNode("style", {}, 0, "child"),
       FNode("meta", {}, 0, "child"),
       FNode("b", {}, 0, "child") >>

Op(kind, selector) ==
    [op |-> kind, selector |-> selector, strings |-> {}, text |-> "", html |-> <<>>,
     attr |-> <<>>, value |-> <<>>, cssSelector |-> <<>>, styleRules |-> <<>>]

ReplaceText(selector, text) ==
    [Op("replace_text", selector) EXCEPT !.text = text, !.strings = {"text"}]
AppendHtml(selector, frag) ==
    [Op("append_html", selector) EXCEPT !.html = frag, !.strings = {"html"}]
ReplaceHtml(selector, frag) ==
    [Op("replace_html", selector) EXCEPT !.html = frag, !.strings = {"html"}]
SetAttr(selector, attr, value) ==
    [Op("set_attr", selector) EXCEPT !.attr = attr, !.value = value]
AddClass(selector, value) == [Op("add_class", selector) EXCEPT !.value = value]
RemoveClass(selector, value) == [Op("remove_class", selector) EXCEPT !.value = value]
UpsertStyle(selector, cssSelector, styleRules) ==
    [Op("upsert_style", selector) EXCEPT !.cssSelector = cssSelector,
                                         !.styleRules = styleRules]

TxtColorRed == <<"c", "o", "l", "o", "r", ":", " ", "r", "e", "d">>
SelA == <<".", "a">>

OpInputs ==
    { ReplaceText("p", "New"),
      ReplaceText("nav a", "New"),
      ReplaceText("header a", "New"),
      ReplaceText("div", "New"),
      Op("replace_text", "p"),                    \* text is not a string
      AppendHtml("p", FragUnsafe),
      AppendHtml("div", FragTemplate),
      AppendHtml("#inner", FragStyle),
      ReplaceHtml("div", FragUnsafe),
      ReplaceHtml("#inner", FragPlain),
      SetAttr("p", TxtOnClick, <<"x">>),
      SetAttr("a", TxtHref, TxtJsUrl),
      SetAttr("a", TxtHref, TxtJsUrlWs),
      SetAttr("p", TxtTitle, <<"t">>),
      AddClass("p", <<"h", "o", "t", " ", " ", "b", "o", "x">>),
      RemoveClass(".box", TxtBox),
      UpsertStyle("div", SelA, TxtColorRed),
      UpsertStyle("", SelA, TxtColorRed),         \* no element selector
      Op("frobnicate", "p"),                      \* unknown kind
      Op("replace_text", ""),                     \* empty selector
      ReplaceText("p[", "New") }                  \* selector that does not parse

RootInputs == { Absent, "", "#nomatch", "div", "#inner", "p[" }
ProtectedInputs == { <<>>, <<"nav">>, <<"p[", "p">> }
MaxOpsInputs == { -1, 0, 1, 2 }

NoOp == [op |-> Op("", ""), found |-> <<>>, cands |-> <<>>, mutated |-> <<>>,
         skipped |-> {}, budgetBreak |-> FALSE, seenBefore |-> {}, domBefore |-> <<>>,
         changedBefore |-> 0, appliedBefore |-> 0, cssBefore |-> <<>>]

\* the css upsert history is not used by a patch request that makes no call
CssIdle ==
    /\ cssIn = <<>>
    /\ cssSel = <<>>
    /\ cssRules = <<>>
    /\ cssCalls = 0

PatchIdle ==
    /\ dom = <<>>
    /\ root = Absent
    /\ protectedSelectors = <<>>
    /\ maxOps = 0
    /\ safeRoots = <<>>
    /\ protectedNodes = {}
    /\ changed = 0
    /\ applied = <<>>
    /\ seen = {}
    /\ phase = "idle"
    /\ opsDone = 0
    /\ log = <<>>
    /\ lastOp = NoOp

\* applyOps up to the op loop: lines 103-133
InitPatch ==
    /\ dom = InitDom
    /\ css = <<>>
    /\ CssIdle
    /\ root \in RootInputs
    /\ protectedSelectors \in ProtectedInputs
    /\ maxOps \in MaxOpsInputs
    /\ LET rr == ResolveRoots(InitDom, root)
       IN  /\ phase = IF rr.ok THEN "loop" ELSE "threw"
           /\ safeRoots = IF rr.ok THEN rr.roots ELSE <<>>
           /\ protectedNodes =
                IF rr.ok
                THEN ProtectedNodesOf(InitDom, DEFAULT_PROTECTED \o protectedSelectors)
                ELSE {}
    /\ changed = 0
    /\ applied = <<>>
    /\ seen = {}
    /\ opsDone = 0
    /\ log = <<>>
    /\ lastOp = NoOp
    /\ JobsIdle
    /\ ProxyIdle

\* one iteration of `for (const op of ops)` that passes the budget test of
\* line 136
ApplyOp(op) ==
    /\ phase = "loop"
    /\ opsDone < MaxOpsLen
    /\ budgetLeft(changed)
    /\ \E r \in {OpStep(op)} :
           /\ Len(r.st.dom.tag) <= MaxNodes
           /\ dom' = r.st.dom
           /\ css' = r.st.css
           /\ cssIn' = r.st.cssIn
           /\ cssSel' = r.st.cssSel
           /\ cssRules' = r.st.cssRules
           /\ cssCalls' = r.st.cssCalls
           /\ changed' = r.st.changed
           /\ applied' = r.st.applied
           /\ log' = r.st.log
           /\ seen' = r.seen
           /\ lastOp' = [op |-> op, found |-> r.found, cands |-> r.cands,
                         mutated |-> r.st.mutated, skipped |-> r.st.skipped,
                         budgetBreak |-> r.st.budgetBreak, seenBefore |-> seen,
                         domBefore |-> dom, changedBefore |-> changed,
                         appliedBefore |-> Len(applied), cssBefore |-> css]
    /\ opsDone' = opsDone + 1
    /\ UNCHANGED <<root, protectedSelectors, maxOps, safeRoots, protectedNodes, phase>>
    /\ UNCHANGED <<jobVars, proxyVars>>

\* the loop ends (list exhausted, or `break` at line 136) and applyOps
\* returns { html, css, changed, applied }
Return ==
    /\ phase = "loop"
    /\ phase' = "returned"
    /\ UNCHANGED <<dom, root, protectedSelectors, maxOps, safeRoots, protectedNodes,
                   changed, applied, seen, opsDone, log, lastOp, cssVars, jobVars,
                   proxyVars>>

NextPatch == (\E op \in OpInputs : ApplyOp(op)) \/ Return

----------------------------------------------------------------------------
(* Inputs of the CSS upsert check                                          *)

MaxUpserts == 2

ExampleCss == <<".", "a", " ", "{", " ", "c", "o", "l", "o", "r", ":", " ", "r", "e", "d", ";", " ", "}">>
ExampleRules == <<"c", "o", "l", "o", "r", ":", " ", "b", "l", "u", "e", ";", " ", "m", "a", "r", "g", "i", "n", ":", " ", "1", "p", "x">>
ExampleOut == <<".", "a", " ", "{", " ", "c", "o", "l", "o", "r", ":", " ", "b", "l", "u", "e", ";", " ", "m", "a", "r", "g", "i", "n", ":", " ", "1", "p", "x", " ", "}">>

CssTexts ==
    { <<>>,
      ExampleCss,
      <<"b", " ", "{", " ", "m", ":", "1", " ", "}">>,
      <<"x", "{", "}", "\n", "\n", ".", "a", "{", "m", ":", "1", "}">>,
      <<"b", "a", " ", "{", " ", "m", ":", "1", " ", "}">> }

CssSelectors == { SelA, <<"b">>, <<"p">> }

\* 'b: u:v', a value that contains a colon
RuleWithColon == <<"b", ":", " ", "u", ":", "v">>

CssRuleTexts == { ExampleRules, <<"m", ":", "2">>, TxtColorRed, RuleWithColon }

InitCss ==
    /\ css \in CssTexts
    /\ CssIdle
    /\ PatchIdle
    /\ JobsIdle
    /\ ProxyIdle

\* one call css = upsertCssRule(css, selector, styleRules)
CssUpsert(s, r) ==
    /\ cssCalls < MaxUpserts
    /\ cssIn' = css
    /\ cssSel' = s
    /\ cssRules' = r
    /\ css' = upsertCssRule(css, s, r)
    /\ cssCalls' = cssCalls + 1
    /\ UNCHANGED <<patchVars, jobVars, proxyVars>>

NextCss == \E s \in CssSelectors, r \in CssRuleTexts : CssUpsert(s, r)

----------------------------------------------------------------------------
(* The runner as a system: create requests, status queries and workers     *)

InitJobs ==
    /\ chain \in ChainInputs
    /\ store = [id \in JobIds |-> NoJob]
    /\ queue = <<>>
    /\ nextId = 1
    /\ pending = {}
    /\ wpc = [w \in Workers |-> "pop"]
    /\ wjob = [w \in Workers |-> NoJob]
    /\ wk = [w \in Workers |-> 0]
    /\ wresp = [w \in Workers |-> NoResp]
    /\ called = [id \in JobIds |-> <<>>]
    /\ firstOk = [id \in JobIds |-> ""]
    /\ lastReply = NoReply
    /\ delivered = [id \in JobIds |-> 0]
    /\ started = [id \in JobIds |-> 0]
    /\ css = <<>>
    /\ CssIdle
    /\ PatchIdle
    /\ ProxyIdle

WorkerStep(w) ==
    \/ WorkerPop(w)
    \/ WorkerGet(w)
    \/ WorkerSetRunning(w)
    \/ \E f \in FetchInputs : WorkerFetch(w, f.how, f.respOk, f.stalls)
    \/ \E obj \in BodyInputs : WorkerBody(w, obj)
    \/ WorkerPersistLog(w)
    \/ WorkerPersistEnd(w)

NextJobs ==
    \/ (CreateSet /\ UNCHANGED <<cssVars, patchVars, proxyVars>>)
    \/ (\E id \in JobIds : CreatePush(id) /\ UNCHANGED <<cssVars, patchVars, proxyVars>>)
    \/ (\E id \in JobIds : Status(id) /\ UNCHANGED <<cssVars, patchVars, proxyVars>>)
    \/ (\E w \in Workers : WorkerStep(w) /\ UNCHANGED <<cssVars, patchVars, proxyVars>>)

vars == <<cssVars, patchVars, jobVars, proxyVars>>

SpecCss == InitCss /\ [][NextCss]_vars

SpecPatch == InitPatch /\ [][NextPatch]_vars

SpecJobs == InitJobs /\ [][NextJobs]_vars

\* Scheduling: the event loop runs every continuation whose await has
\* settled, Redis answers every command, and a fetch always settles (by a
\* response, a network error or the abort timer).  A response body that
\* stalls is not made to arrive by any of this.
FairSpecJobs ==
    /\ SpecJobs
    /\ WF_vars(\E id \in JobIds : CreatePush(id) /\ UNCHANGED <<cssVars, patchVars, proxyVars>>)
    /\ \A w \in Workers : WF_vars(WorkerStep(w) /\ UNCHANGED <<cssVars, patchVars, proxyVars>>)

InitProxy ==
    /\ pxReq \in ProxyRequests
    /\ pxPc = "start"
    /\ pxI = 0
    /\ pxRes = 0
    /\ pxLastErr = ""
    /\ pxAborted = FALSE
    /\ pxTimer = FALSE
    /\ pxReply = NoProxyReply
    /\ pxTried = <<>>
    /\ css = <<>>
    /\ CssIdle
    /\ PatchIdle
    /\ JobsIdle

NextProxy ==
    \/ (ProxyHandle /\ UNCHANGED <<cssVars, patchVars, jobVars>>)
    \/ (\E o \in FetchOutcomes : ProxyFetch(o) /\ UNCHANGED <<cssVars, patchVars, jobVars>>)
    \/ (ProxyFetchAborted /\ UNCHANGED <<cssVars, patchVars, jobVars>>)
    \/ (ProxyTimeout /\ UNCHANGED <<cssVars, patchVars, jobVars>>)
    \/ (ProxyBackoff /\ UNCHANGED <<cssVars, patchVars, jobVars>>)
    \/ (\E b \in BodyOutcomes : ProxyBody(b) /\ UNCHANGED <<cssVars, patchVars, jobVars>>)

SpecProxy == InitProxy /\ [][NextProxy]_vars

----------------------------------------------------------------------------
(* Claims about applyOps                                                   *)

\* the nodes matched at request start by a default or caller-supplied
\* protected selector
ProtectedAtStart ==
    UNION { SeqToSet(querySelectorAll(InitDom, 0, sel).els) :
              sel \in SeqToSet(DEFAULT_PROTECTED \o protectedSelectors) }

Occurrences(seq, e) == Len(SelectSeq(seq, LAMBDA x : x = e))

\* C1: no operation is applied to a candidate that is, or descends from, a
\* node matched at request start by a protected selector: every counted
\* change was made to an element with no protected node on its ancestor
\* chain, every applied entry is such a change, and a protected candidate of
\* the last op added nothing to changed or applied.
C1_ProtectedUntouched ==
    /\ \A i \in 1..Len(log) : log[i].anc \cap ProtectedAtStart = {}
    /\ Len(applied) = Len(log)
    /\ changed = Len(log)
    /\ \A e \in SeqToSet(lastOp.cands) :
          AncSelf(lastOp.domBefore, e) \cap ProtectedAtStart # {}
             => Occurrences(lastOp.mutated, e) = 0
    /\ changed - lastOp.changedBefore = Len(lastOp.mutated)

\* protectedSelectors = ['nav'], op on 'nav a': the candidate was skipped
C1_Witness ==
    /\ protectedSelectors = <<"nav">>
    /\ lastOp.op.selector = "nav a"
    /\ lastOp.op.op = "replace_text"
    /\ lastOp.skipped # {}
    /\ changed = 0
    /\ applied = <<>>

\* C2: with maxOps = N > 0 the changed count never exceeds N; with
\* maxOps <= 0 the budget never stops the loop.
C2_Budget ==
    /\ maxOps > 0 => changed <= maxOps
    /\ maxOps <= 0 => budgetLeft(changed) /\ ~lastOp.budgetBreak

\* the budget stopped an operation between two of its candidates
C2_Witness ==
    /\ maxOps = 1
    /\ changed = 1
    /\ lastOp.budgetBreak
    /\ Len(lastOp.cands) > Len(lastOp.mutated)

UnsafeNode(d, n) ==
    \/ d.tag[n] \in {"script", "iframe"}
    \/ \E a \in d.attrs[n] :
          \/ startsWith(toLowerCase(a[1]), TxtOn)
          \/ toLowerCase(a[1]) \in {TxtHref, TxtSrc} /\ JsUriLoose(a[2])

\* C3: the content inserted by append_html / replace_html contains no script
\* element, no iframe element, no on* attribute and no href/src attribute
\* holding a javascript: URI.
C3_InsertedIsSafe ==
    phase # "idle" =>
        \A n \in NodesOf(dom) : dom.inserted[n] => ~UnsafeNode(dom, n)

\* a root selector that is absent, empty or matches nothing
RootFallsBack ==
    \/ root \in {Absent, ""}
    \/ root \notin BadSelectors /\ querySelectorAll(InitDom, 0, root).els = <<>>

ProperlyUnder(d, r, n) == r # n /\ contains(d, r, n)

\* C4: when the root selector is absent, empty or matches nothing the only
\* scope root is <body>; every change was made to an element that the op
\* found as a descendant of a scope root; and every node of the original
\* document that is not a descendant of a scope root is as it was.
C4_Scoped ==
    phase \in {"loop", "returned"} =>
        /\ RootFallsBack => safeRoots = <<BodyOf(InitDom)>>
        /\ \A i \in 1..Len(log) : log[i].scope # {}
        /\ \A n \in NodesOf(InitDom) :
              (\A r \in SeqToSet(safeRoots) : ~ProperlyUnder(InitDom, r, n))
                 => /\ dom.tag[n] = InitDom.tag[n]
                    /\ dom.id[n] = InitDom.id[n]
                    /\ dom.cls[n] = InitDom.cls[n]
                    /\ dom.attrs[n] = InitDom.attrs[n]
                    /\ dom.text[n] = InitDom.text[n]
                    /\ dom.kids[n] = InitDom.kids[n]
                    /\ dom.parent[n] = InitDom.parent[n]

\* the root selector matched nothing, <body> is the scope and an op changed
\* an element inside it
C4_Witness ==
    /\ root = "#nomatch"
    /\ safeRoots = <<BodyOf(InitDom)>>
    /\ changed > 0
    /\ lastOp.mutated # <<>>

\* the op would change any unprotected candidate it is given
Effective(op) ==
    \/ op.op = "replace_text" /\ "text" \in op.strings
    \/ op.op = "append_html" /\ "html" \in op.strings
    \/ op.op \in {"add_class", "remove_class"} /\ SplitWs(op.value) # <<>>

\* C5: when the scope roots overlap and the selector of an op matches an
\* element under two of them, the op mutates that element exactly once
\* (the op being one that changes its candidates, the element unprotected,
\* the budget unlimited).
C5_ExactlyOnce ==
    \A e \in SeqToSet(lastOp.found) :
        ( /\ Occurrences(lastOp.found, e) >= 2
          /\ Effective(lastOp.op)
          /\ maxOps <= 0
          /\ AncSelf(lastOp.domBefore, e) \cap ProtectedAtStart = {} )
        => Occurrences(lastOp.mutated, e) = 1

----------------------------------------------------------------------------
(* Claims about upsertCssRule                                              *)

\* the last call found an existing block for its selector
LastCallMerged ==
    /\ cssCalls > 0
    /\ PatternExec(cssIn, Trim(cssSel)).found

\* C6: upsertCssRule is idempotent as text: applying the call that produced
\* css once more, with the same selector and rules, returns css unchanged
\* (whether the block was absent or present before the call).
C6_Idempotent ==
    cssCalls > 0 => upsertCssRule(css, cssSel, cssRules) = css

\* C7: when a block for the selector exists, the call replaces that block by
\* '<sel> { <merged> }' and leaves the text before the selector and after the
\* closing brace as it was; the css '.a { color: red; }' upserted with
\* ('.a', 'color: blue; margin: 1px') is exactly '.a { color: blue; margin: 1px }'.
C7_MergedBlock ==
    /\ LastCallMerged =>
          LET m == PatternExec(cssIn, Trim(cssSel))
          IN  css = SubSeq(cssIn, 1, m.selAt - 1)
                    \o Trim(cssSel) \o <<" ", "{", " ">>
                    \o Serialize(MergeDecls(Trim(m.m2), Trim(cssRules)))
                    \o <<" ", "}">>
                    \o SubSeq(cssIn, m.last + 1, Len(cssIn))
    /\ (cssCalls > 0 /\ cssIn = ExampleCss /\ cssSel = SelA /\ cssRules = ExampleRules)
          => css = ExampleOut

----------------------------------------------------------------------------
(* Claims about the runner                                                 *)

Terminal == {"done", "error"}

\* the status changes a record may go through
Lifecycle ==
    { <<"none", "queued">>, <<"queued", "running">>,
      <<"running", "done">>, <<"running", "error">> }

\* C8: a job record only moves queued -> running -> done or
\* queued -> running -> error; once it is done or error no write changes its
\* status, result or error, and it never returns to queued or running.
C8_TerminalIsFinal ==
    [][\A id \in JobIds :
          /\ store[id].status # store'[id].status
                => <<store[id].status, store'[id].status>> \in Lifecycle
          /\ store[id].status \in Terminal
                => /\ store'[id].status = store[id].status
                   /\ store'[id].result = store[id].result
                   /\ store'[id].error = store[id].error]_vars

\* one job is done and has been queried while a worker is in the middle of
\* another job whose first backend failed
C8_Witness ==
    /\ \E id \in JobIds :
          /\ store[id].status = "done"
          /\ lastReply.id = id
          /\ lastReply.status = "done"
    /\ \E w \in Workers :
          /\ wpc[w] = "fetch"
          /\ store[wjob[w].id].status = "running"
          /\ store[wjob[w].id].logs # <<>>

\* C9: every created job eventually reaches done or error when the workers
\* are scheduled fairly; it is not left in queued or running for ever.
C9_EventuallyEnds ==
    \A id \in JobIds :
        (store[id].status = "queued") ~> (store[id].status \in Terminal)

\* no worker is waiting for a response body that never completes
NoStall == \A w \in Workers : ~wresp[w].stalls

\* the same property with stalled bodies set aside: it holds under
\* FairSpecJobs, so a stalled body is the only way a job is left unfinished
EndsUnlessStalled ==
    \A id \in JobIds :
        (store[id].status = "queued") ~> (store[id].status \in Terminal \/ ~NoStall)

\* the place of a backend in the model chain (0 when it is not there)
ChainIndex(model) ==
    IF \E k \in 1..Len(chain) : chain[k] = model
    THEN CHOOSE k \in 1..Len(chain) : chain[k] = model
    ELSE 0

\* C10: first success wins.  When backend i is the first of the chain to
\* succeed, the backends called are exactly those up to i and none after it;
\* the job, once finished, is done with the files of backend i, and its logs
\* are one failure line for each backend before i, in chain order.
C10_FirstSuccessWins ==
    \A id \in JobIds :
        LET job == store[id]
            i == ChainIndex(firstOk[id])
        IN  /\ called[id] = SubSeq(chain, 1, Len(called[id]))
            /\ firstOk[id] # "" =>
                  /\ i > 0
                  /\ called[id] = SubSeq(chain, 1, i)
                  /\ job.status # "error"
                  /\ job.status = "done" =>
                        /\ job.result # <<>>
                        /\ job.result[1].from = firstOk[id]
                        /\ Len(job.logs) = i - 1
                        /\ \A k \in 1..(i - 1) : job.logs[k].model = chain[k]
            /\ job.status = "done" => firstOk[id] # ""

\* chain [A, B, C]: A and B failed, C succeeded, the job is done
C10_Witness ==
    \E id \in JobIds :
        /\ chain = <<"A", "B", "C">>
        /\ store[id].status = "done"
        /\ store[id].result[1].from = "C"
        /\ called[id] = <<"A", "B", "C">>
        /\ Len(store[id].logs) = 2
        /\ store[id].logs[1].model = "A"
        /\ store[id].logs[2].model = "B"

\* C11: when every backend of the chain fails, each backend is called exactly
\* once in chain order and the job ends with status error, result null and
\* error equal to the failure logged for the last backend of the chain.
C11_ChainExhausted ==
    \A id \in JobIds :
        LET job == store[id]
            n == Len(chain)
        IN  /\ (job.status \in Terminal /\ firstOk[id] = "") => job.status = "error"
            /\ job.status = "error" =>
                  /\ firstOk[id] = ""
                  /\ job.result = <<>>
                  /\ called[id] = chain
                  /\ Len(job.logs) = n
                  /\ \A k \in 1..n : job.logs[k].model = chain[k]
                  /\ n > 0 => job.error = <<job.logs[n]>>

\* chain [A, B, C]: A timed out, C answered non-2xx, the job is in error with
\* C's failure as its error
C11_Witness ==
    \E id \in JobIds :
        /\ chain = <<"A", "B", "C">>
        /\ store[id].status = "error"
        /\ store[id].logs[1] = [model |-> "A", error |-> "timeout"]
        /\ store[id].error = <<[model |-> "C", error |-> "OpenAI HTTP error"]>>
        /\ called[id] = <<"A", "B", "C">>

\* C12: each job id is delivered to at most one worker and runJob is entered
\* at most once per job: an id is in the queue at most once and never after
\* it has been delivered, and no two workers hold the same id.
C12_DeliveredOnce ==
    \A id \in JobIds :
        /\ delivered[id] <= 1
        /\ started[id] <= delivered[id]
        /\ Occurrences(queue, id) + delivered[id] <= 1
        /\ Cardinality({ w \in Workers : wjob[w].id = id }) <= 1

\* two workers are in the middle of two different jobs, each delivered once
C12_Witness ==
    \E w1, w2 \in Workers :
        /\ w1 # w2
        /\ wpc[w1] = "fetch" /\ wpc[w2] = "body"
        /\ wjob[w1].id # wjob[w2].id
        /\ delivered[wjob[w1].id] = 1 /\ delivered[wjob[w2].id] = 1
        /\ started[wjob[w1].id] = 1 /\ started[wjob[w2].id] = 1

\* C13: applyOps never raises, whatever the op list and the root selector:
\* it always gets to return a result.
C13_NeverRaises == phase # "threw"

\* C14: every call of a backend returns control to the worker, also when
\* the backend never sends a response or stalls the body after the headers.
C14_CallReturns ==
    \A w \in Workers :
        (wpc[w] \in {"fetch", "body"}) ~> (wpc[w] \notin {"fetch", "body"})

\* the result field holds the three required files
HasAllFiles(result) ==
    /\ result # <<>>
    /\ RequiredFiles \subseteq result[1].strings

\* C15: in every persisted record, done implies a result with the three
\* required files as strings and a null error; queued, running and error
\* imply a null result.  A status reply is the same: done is never reported
\* with a missing or partial result.
C15_DoneHasResult ==
    /\ \A id \in JobIds :
          LET job == store[id]
          IN  /\ job.status = "done" => HasAllFiles(job.result) /\ job.error = <<>>
              /\ job.status \in {"queued", "running", "error"} => job.result = <<>>
    /\ lastReply.status = "done" => HasAllFiles(lastReply.result) /\ lastReply.error = <<>>
    /\ lastReply.status \in {"queued", "running", "error"} => lastReply.result = <<>>

\* a status query answers done with the whole file set, for a job whose
\* first backend had failed
C15_Witness ==
    /\ lastReply.code = 200
    /\ lastReply.status = "done"
    /\ HasAllFiles(lastReply.result)
    /\ lastReply.logs # <<>>
    /\ store[lastReply.id].status = "done"

\* C17: while a job is queued or running, a status query for it returns no
\* log line naming a backend failure.
C17_FailuresHidden ==
    lastReply.status \in {"queued", "running"} => lastReply.logs = <<>>

\* C18: no job is persisted as done without an applyOps invocation on the
\* backend's output (phase leaves "idle" when applyOps is entered).
C18_PatchedBeforeDone ==
    \A id \in JobIds : store[id].status = "done" => phase # "idle"

----------------------------------------------------------------------------
(* Further claims about applyOps                                           *)

TxtDataProtect == <<"d", "a", "t", "a", "-", "p", "r", "o", "t", "e", "c", "t">>

\* the nodes of the document matched by head, script, link, meta, style,
\* nav or [data-protect]
DefaultListNodes ==
    { n \in NodesOf(InitDom) :
        \/ InitDom.tag[n] \in {"head", "script", "link", "meta", "style", "nav"}
        \/ \E a \in InitDom.attrs[n] : a[1] = TxtDataProtect }

\* C16: with no caller-supplied protected selectors, no operation is applied
\* to a node matched by head, script, link, meta, style, nav or
\* [data-protect], nor to a descendant of one.
C16_DefaultsProtected ==
    protectedSelectors = <<>> =>
        \A i \in 1..Len(log) : log[i].anc \cap DefaultListNodes = {}

\* node n is as it was in d0: same attributes, text and children
SameNode(d, d0, n) ==
    /\ d.id[n] = d0.id[n]
    /\ d.cls[n] = d0.cls[n]
    /\ d.attrs[n] = d0.attrs[n]
    /\ d.text[n] = d0.text[n]
    /\ d.kids[n] = d0.kids[n]

\* C19: replace_text or replace_html applied to an unprotected element that
\* contains a protected node leaves that node inside the element, with its
\* attributes, text and children unchanged.
C19_ProtectedSurvives ==
    lastOp.op.op \in {"replace_text", "replace_html"} =>
        \A e \in SeqToSet(lastOp.mutated) :
            \A n \in ProtectedAtStart :
                ProperlyUnder(lastOp.domBefore, e, n)
                    => /\ ProperlyUnder(dom, e, n)
                       /\ SameNode(dom, lastOp.domBefore, n)

\* C20: an operation reaches every element that its selector matches inside
\* the scope roots: with an unlimited budget, every unprotected element
\* found by the first operation of a request is mutated by it.
C20_ReachesAll ==
    ( /\ opsDone = 1
      /\ maxOps <= 0
      /\ Effective(lastOp.op) )
    => \A e \in SeqToSet(lastOp.found) :
           AncSelf(lastOp.domBefore, e) \cap ProtectedAtStart = {}
               => Occurrences(lastOp.mutated, e) >= 1

\* C21: within one request an element that an operation with selector S was
\* applied to is not mutated again by a later operation with the same
\* selector S, whatever the kind of the earlier operation.  (applied[i] is
\* the entry of change i; upsert_style logs its cssSelector and is left out.)
C21_NeverTwice ==
    \A i, j \in 1..Len(log) :
        ( /\ i < j
          /\ log[i].kind # "upsert_style"
          /\ log[j].kind # "upsert_style"
          /\ applied[i].selector = applied[j].selector )
        => log[i].el # log[j].el

\* the request state before the first operation
FreshState ==
    [dom |-> InitDom, css |-> <<>>, cssIn |-> <<>>, cssSel |-> <<>>, cssRules |-> <<>>,
     cssCalls |-> 0, changed |-> 0, applied |-> <<>>, log |-> <<>>,
     mutated |-> <<>>, skipped |-> {}, budgetBreak |-> FALSE]

\* what the request gives when op is the only operation of the list
AloneResult(op) ==
    LET skip == op.selector = "" \/ op.op = ""
    IN  Eval(IF skip THEN <<>> ELSE FoundUnder(InitDom, safeRoots, op.selector), LAMBDA found :
        Eval(Dedup(InitDom, op.selector, found, <<>>, {}), LAMBDA dd :
             ApplyCands(FreshState, dd.cands, op, InitDom)))

\* C22: an operation that ends up ignored has no effect on the request: when
\* the first of two operations changed nothing, the result (html, css,
\* changed, applied) is the result of the request with the second operation
\* alone.
C22_IgnoredHasNoEffect ==
    ( /\ phase \in {"loop", "returned"}
      /\ opsDone = 2
      /\ lastOp.changedBefore = 0 )
    => \E r \in {AloneResult(lastOp.op)} :
           /\ dom = r.dom
           /\ css = r.css
           /\ changed = r.changed
           /\ applied = r.applied

\* C23: a set_attr whose attribute name starts with 'on' (any case), or that
\* gives href or src a javascript: URI as the sanitizer defines it (leading
\* whitespace tolerated), is rejected: it changes nothing and is not counted.
C23_SetAttrSafe ==
    lastOp.op.op = "set_attr" =>
        LET name == toLowerCase(lastOp.op.attr)
            rejected == \/ startsWith(name, TxtOn)
                        \/ name \in {TxtHref, TxtSrc} /\ JsUriLoose(lastOp.op.value)
        IN  rejected => /\ lastOp.mutated = <<>>
                        /\ dom = lastOp.domBefore
                        /\ changed = lastOp.changedBefore

\* the node is part of the document (its parentElement chain ends at <html>)
Attached(d, n) == 1 \in AncSelf(d, n)

\* C24: no script, iframe, object, embed, style, meta or stylesheet-link
\* element is introduced into the document by append_html or replace_html.
C24_NoDangerousElement ==
    phase # "idle" =>
        \A n \in NodesOf(dom) :
            (dom.inserted[n] /\ Attached(dom, n))
                => /\ dom.tag[n] \notin {"script", "iframe", "object", "embed",
                                         "style", "meta"}
                   /\ ~(dom.tag[n] = "link" /\ <<TxtRel, TxtStylesheet>> \in dom.attrs[n])

----------------------------------------------------------------------------
(* Further claims about upsertCssRule                                      *)

\* C25: the selector is literal text: the call merges only into a block whose
\* selector text is exactly the given selector, and appends a new block
\* otherwise.
C25_LiteralSelector ==
    cssCalls > 0 =>
        LET sel == Trim(cssSel)
            m == PatternExec(cssIn, sel)
        IN  IF m.found
            THEN SubSeq(cssIn, m.selAt, m.selAt + Len(sel) - 1) = sel
            ELSE css = cssIn \o <<"\n">> \o sel \o <<" ", "{", " ">>
                       \o Trim(cssRules) \o <<" ", "}">>

PrefixIs(s, p) == Len(s) >= Len(p) /\ SubSeq(s, 1, Len(p)) = p

SuffixIs(s, p) == Len(s) >= Len(p) /\ SubSeq(s, Len(s) - Len(p) + 1, Len(s)) = p

\* C26: when the call merges into an existing block, the text before the
\* block's selector and the text after its closing brace are identical in
\* the result, whitespace and newlines included.
C26_OutsideUntouched ==
    LastCallMerged =>
        LET m == PatternExec(cssIn, Trim(cssSel))
        IN  /\ PrefixIs(css, SubSeq(cssIn, 1, m.selAt - 1))
            /\ SuffixIs(css, SubSeq(cssIn, m.last + 1, Len(cssIn)))

\* declarations split at their first ':' only: the value is all that follows
RECURSIVE ParseFirstColon(_, _)
ParseFirstColon(map, props) ==
    IF props = <<>> THEN map
    ELSE LET prop == Head(props)
             i == IndexOf(prop, ":", 1)
         IN  IF i = 0 \/ i = 1
             THEN ParseFirstColon(map, Tail(props))
             ELSE ParseFirstColon(
                      MapSet(map, Trim(SubSeq(prop, 1, i - 1)),
                                  Trim(SubSeq(prop, i + 1, Len(prop)))),
                      Tail(props))

\* C27: each declaration is split at its first ':' only, so a value that
\* contains ':' is kept whole in the merged block; declarations with no colon
\* or an empty property name are dropped.
C27_ValueKeptWhole ==
    LastCallMerged =>
        LET sel == Trim(cssSel)
            m == PatternExec(cssIn, sel)
            map == ParseFirstColon(ParseFirstColon(<<>>, Split(Trim(m.m2), ";")),
                                   Split(Trim(cssRules), ";"))
        IN  css = SubSeq(cssIn, 1, m.index - 1)
                  \o m.m1 \o <<" ">> \o sel \o <<" ", "{", " ">>
                  \o Serialize(map) \o <<" ", "}">>
                  \o SubSeq(cssIn, m.last + 1, Len(cssIn))

----------------------------------------------------------------------------
(* upsert_style inside applyOps                                            *)

\* C28: an upsert_style operation with non-empty cssSelector and styleRules
\* upserts the rule into the css exactly once, adds exactly one to changed and
\* one entry to applied, with or without an element selector and however many
\* elements that selector matches, and leaves the html unchanged.
C28_StyleOnce ==
    ( /\ lastOp.op.op = "upsert_style"
      /\ lastOp.op.cssSelector # <<>>
      /\ lastOp.op.styleRules # <<>> )
    => /\ css = upsertCssRule(lastOp.cssBefore, lastOp.op.cssSelector, lastOp.op.styleRules)
       /\ changed = lastOp.changedBefore + 1
       /\ Len(applied) = lastOp.appliedBefore + 1
       /\ dom = lastOp.domBefore

----------------------------------------------------------------------------
(* The queue and the store                                                 *)

\* C29: each id held in the queue has a record in the store whose status is
\* queued, with empty logs and null result and error (create writes the record
\* before it appends the id), and a worker never pops an id whose record is
\* missing.
C29_QueuedHasRecord ==
    /\ \A i \in 1..Len(queue) :
          /\ queue[i] \in JobIds
          /\ store[queue[i]].id = queue[i]
          /\ store[queue[i]].status = "queued"
          /\ store[queue[i]].logs = <<>>
          /\ store[queue[i]].result = <<>>
          /\ store[queue[i]].error = <<>>
    /\ \A w \in Workers :
          wpc[w] = "get" => store[wjob[w].id].status # "none"

\* a worker has popped one id while another id waits in the queue
C29_Witness ==
    /\ queue # <<>>
    /\ \E w \in Workers : wpc[w] = "get" /\ wjob[w].id \in JobIds
    /\ pending # {} \/ nextId > MaxJobs

----------------------------------------------------------------------------
(* The jobs-status proxy                                                   *)

\* a GET request with an id, and a configured runner
ProxyCase ==
    /\ pxReq.method = "GET"
    /\ Trim(pxReq.id) # <<>>
    /\ pxReq.configured

\* the calls that came back with a status below 500
Below500 == { k \in 1..Len(pxTried) :
                 pxTried[k].kind = "response" /\ pxTried[k].status < 500 }

\* C30: for a request with an id and a configured runner, the proxy calls the
\* runner at most 3 times; it returns the first response whose status is below
\* 500 with that status, and it returns 502 'fetch failed' exactly when every
\* attempt failed (network error, abort, or a status of 500 or more).
C30_ProxyMapping ==
    ProxyCase =>
        /\ Len(pxTried) <= 3
        /\ pxPc = "returned" =>
              /\ Below500 # {} =>
                    /\ \A k \in Below500 : k = Len(pxTried)
                    /\ pxReply.statusCode = pxTried[Len(pxTried)].status
              /\ (pxReply.statusCode = 502 /\ pxReply.error = "fetch failed")
                    <=> Below500 = {}

====
